---- MODULE Spec2Model ----
(***************************************************************************)
(* Model of the selection button group of buildtimetrend/dashboard         *)
(* (assets/js/ButtonClass.js) as a state machine.                          *)
(*                                                                         *)
(* One ButtonClass instance is modelled.  Init is the state right after    *)
(* `new ButtonClass(name, buttonList, defaultButton)`.  The public methods *)
(* (initButtons, setCurrentButton, getCurrentButton, formatButtons) are     *)
(* actions; the jQuery click handler registered by attachButtonEvent is     *)
(* modelled statement by statement (pc is the position inside it), because  *)
(* the callbacks it invokes observe the intermediate state.  JavaScript is  *)
(* single threaded: nothing else runs while a handler is running.           *)
(*                                                                         *)
(* JavaScript values: option keys are strings; `undefined` is modelled by   *)
(* the string "undefined", which is what the `in` operator coerces it to.   *)
(* The `in` operator looks a key up on the object AND on its prototype      *)
(* chain, so `'constructor' in buttonList` is true for every object         *)
(* literal.                                                                 *)
(***************************************************************************)
EXTENDS Integers, Sequences, FiniteSets, TLC

VARIABLES
    buttonNames,    \* Object.keys(this.buttonList), in insertion order
    onClickButtons, \* the buttons whose configuration has an own 'onClick'
    onClick,        \* this.onClick : '' or a function
    nameField,      \* buttonList[b].name for every own button b
    defaultButton,  \* this.defaultButton
    currentButton,  \* this.currentButton
    classes,        \* the class attribute of the DOM element of every button
    handlers,       \* number of click handlers attached to every button
    initCount,      \* number of completed initButtons() calls
    pc,             \* 0 : no handler running, i > 0 : at ClickHandlerOrder[i]
    clicked,        \* the button whose handler is running (closure variable)
    pending,        \* handlers of the clicked element still to run
    trace,          \* what the handlers of the last click did, if the click
                    \* is the last operation
    clicks,         \* number of clicks received by every button
    generalCalls,   \* number of invocations of this.onClick
    buttonCalls,    \* number of invocations of buttonList[b].onClick
    lastCall        \* the last operation: its name, its argument, the current
                    \* button before a setCurrentButton call, and the object
                    \* a getCurrentButton call returned

\* State of a series of mergeSum calls on one hash table (its own
\* specification, SpecMerge).
VARIABLES
    mergeInput,      \* the objects handed to mergeSum, as they were received
    mergeOrder,      \* the order in which they are handed to mergeSum
    mergePos,        \* number of mergeSum calls made
    objects,         \* the objects as they are now (mergeSum stores references)
    mergedHashTable, \* own properties of the hash table, in insertion order:
                     \* the objects they refer to
    objectResult     \* the `result` property of the function Object, which
                     \* every hash table inherits as `constructor`

buttonVars == <<buttonNames, onClickButtons, onClick, nameField, defaultButton,
                currentButton, classes, handlers, initCount, pc, clicked,
                pending, trace, clicks, generalCalls, buttonCalls, lastCall>>

mergeVars == <<mergeInput, mergeOrder, mergePos, objects, mergedHashTable,
               objectResult>>

\* State of one of the two 'Total events per project' charts, whose request
\* merges the results of two queries (its own specification, SpecEvents).
VARIABLES
    evChart,        \* the chart: chartEventsPerProject or ...Pie
    evOutcome,      \* what the query runner delivers for its batch: an error
                    \* or the ordered list of results
    evRuns,         \* number of client.run calls made by the chart
    evInFlight,     \* number of batches whose callback has not run yet
    evErrors,       \* the messages handed to chart.error, in order
    evRendered,     \* the data handed to chart.data(...).render(), in order
    evAggregations, \* number of times the merge of the results was started
    evThrown        \* number of callbacks ended by a TypeError

eventsVars == <<evChart, evOutcome, evRuns, evInFlight, evErrors, evRendered,
                evAggregations, evThrown>>

\* Two button groups on one page (they share the document and the address)
VARIABLES
    twoUrl,          \* the parameters of the page address, by name
    twoButtonList,   \* this.buttonList of each group: its keys, in order
    twoDefault,      \* this.defaultButton of each group
    twoCurrent,      \* this.currentButton of each group
    twoClasses,      \* the class attribute of each element, by selector
    twoAttached,     \* the groups whose click handlers are bound, in order
    twoCalls,        \* how often the onClick of each group has run
    twoActor         \* the group whose method or element was used last

twoVars == <<twoUrl, twoButtonList, twoDefault, twoCurrent, twoClasses,
             twoAttached, twoCalls, twoActor>>

\* The 'per project' count charts of the dashboard
VARIABLES
    countReady,      \* initCharts() has run
    countQueries,    \* queries[0] of each chart: the parameters set on it
    countTitles,     \* the title of each chart
    countRequests,   \* how many requests each chart has issued
    countInFlight,   \* the requests that have not completed
    countDisplay     \* what each chart shows

countVars == <<countReady, countQueries, countTitles, countRequests,
               countInFlight, countDisplay>>

pageVars == <<twoVars, countVars>>

vars == <<buttonVars, mergeVars, eventsVars, pageVars>>

----------------------------------------------------------------------------
(* Bounds *)

MaxClicks == 2
MaxInit == 2
MaxEntries == 3
MaxFlat == 2
MaxBuckets == 2
MaxRuns == 2

----------------------------------------------------------------------------
(* Values *)

Undefined == "undefined"

CLASS_BUTTON_NORMAL == "btn btn-primary"
CLASS_BUTTON_ACTIVE == "btn btn-success"
CLASS_BUTTON_DEFAULT == "btn btn-default"

Range(s) == {s[i] : i \in 1..Len(s)}

\* Properties every object literal inherits from Object.prototype
\* (one representative).
InheritedProps == {"constructor"}

\* Object.prototype.constructor is the function Object; its name is 'Object'.
InheritedName(p) == "Object"

\* The constructor inputs that are explored: no button list and no
\* callbacks; the keys of the count buttons of the dashboard, with and
\* without a general onClick, 'builds' being given an onClick of its own;
\* and a list of three buttons that all have an onClick.
ConstructorArgs ==
    { [buttonList |-> <<>>, onClick |-> "", withOnClick |-> {}],
      [buttonList |-> <<"builds", "jobs">>, onClick |-> "function",
       withOnClick |-> {"builds"}],
      [buttonList |-> <<"builds", "jobs">>, onClick |-> "",
       withOnClick |-> {"builds"}],
      [buttonList |-> <<"day", "week", "month">>, onClick |-> "function",
       withOnClick |-> {"day", "week", "month"}] }

PlaceholderButtons == <<"button1", "button2">>

\* Strings that are no button of any list, and `undefined`.
OtherKeys == {Undefined, "", "bogus", "constructor"}

KeyInputs(names) == OtherKeys \cup Range(names)

----------------------------------------------------------------------------
(* Helpers of the page that ButtonClass uses *)

isEmpty(v) == v = Undefined \/ v = ""

isEmptyObject(list) == Len(list) = 0

getUrlParameter(param) == IF param = Undefined THEN "" ELSE param

----------------------------------------------------------------------------
(* ButtonClass methods as operators *)

\* `button in this.buttonList`
InButtonList(button, names) == button \in Range(names) \cup InheritedProps

ButtonList(list) == IF isEmptyObject(list) THEN PlaceholderButtons ELSE list

setDefaultButton(button, names) ==
    IF Len(names) > 0
    THEN IF ~isEmpty(button) /\ InButtonList(button, names)
         THEN button
         ELSE names[1]
    ELSE ""

\* Variant: the fallback tests the current button instead of the argument.
KeepSetCurrentButton(button, current, default, names) ==
    LET adopted == IF ~isEmpty(button) /\ InButtonList(button, names)
                   THEN button ELSE current
    IN  IF isEmpty(adopted) \/ ~InButtonList(adopted, names)
        THEN default ELSE adopted
\* Variant: the argument is validated but never adopted.
IgnoreSetCurrentButton(button, current, default, names) ==
    IF isEmpty(current) \/ ~InButtonList(button, names)
    THEN default ELSE current
\* Variant: selecting the current button again deselects it.
ToggleSetCurrentButton(button, current, default, names) ==
    IF button = current
    THEN default
    ELSE LET adopted == IF ~isEmpty(button) /\ InButtonList(button, names)
                        THEN button ELSE current
         IN  IF isEmpty(adopted) \/ ~InButtonList(button, names)
             THEN default ELSE adopted
setCurrentButton(button, current, default, names) ==
    LET adopted == IF ~isEmpty(button) /\ InButtonList(button, names)
                   THEN button ELSE current
    IN  IF isEmpty(adopted) \/ ~InButtonList(button, names)
        THEN default ELSE adopted

\* The object the method returns: which object it is and its name field.
getCurrentButton(current, names, nf) ==
    IF current \in Range(names)
    THEN [object |-> current, name |-> current]
    ELSE [object |-> "Object.prototype." \o current,
          name |-> InheritedName(current)]

\* The name fields after getCurrentButton: assigning `name` to a function
\* object is silently ignored in sloppy mode.
nameFieldAfterGet(current, names, nf) ==
    IF current \in Range(names)
    THEN [nf EXCEPT ![current] = current]
    ELSE nf

formatButtons(names, current) ==
    [b \in Range(names) |->
        IF b = current THEN CLASS_BUTTON_ACTIVE ELSE CLASS_BUTTON_NORMAL]

\* The statements of the click handler, in program order.
\* Variant: the callback of the button runs before the general one.
SwappedClickHandlerOrder ==
    <<"setCurrentButton", "formatButtons", "button.onClick", "onClick">>
\* Variant: the buttons are formatted after the callbacks.
LateFormatClickHandlerOrder ==
    <<"setCurrentButton", "onClick", "button.onClick", "formatButtons">>
ClickHandlerOrder ==
    <<"setCurrentButton", "formatButtons", "onClick", "button.onClick">>

----------------------------------------------------------------------------
(* mergeSum (dashboard script) *)

PROJECT_NAME_PROPERTY == "buildtime_trend.project_name"

NaN == "NaN"

\* The values of the key property in the query results: two project names
\* and a name that every object inherits a property for.
MergeKeys == {"A", "B", "constructor"}

\* One element of a query result: the key property and the result.  Its
\* other fields travel with the object, which is identified by its number.
MergeResults == {1, 2}

MergeObjects ==
    [key : MergeKeys, result : MergeResults]

SeqSum(f, n) ==
    LET S[i \in 0..n] == IF i = 0 THEN 0 ELSE S[i - 1] + f[i]
    IN  S[n]

\* The position in the hash table of the own property `key`, 0 if none.
OwnIndex(key, objs, table) ==
    IF \E j \in 1..Len(table) : objs[table[j]].key = key
    THEN CHOOSE j \in 1..Len(table) : objs[table[j]].key = key
    ELSE 0

\* `if (mergedHashTable[key])`: an own property (an object, truthy), or a
\* property inherited from Object.prototype (a function, truthy as well).
Truthy(key, objs, table) ==
    OwnIndex(key, objs, table) > 0 \/ key \in InheritedProps

\* x + y where x may be undefined or NaN
Plus(x, y) == IF x \in {Undefined, NaN} THEN NaN ELSE x + y

\* mergeSum(object, mergedHashTable, propertyName) for the object number i:
\* the objects, the hash table and Object.result afterwards.
mergeSum(i, objs, table, objResult) ==
    LET key == objs[i].key
        j == OwnIndex(key, objs, table)
    IN  IF Truthy(key, objs, table)
        THEN IF j > 0
             THEN [objs |-> [objs EXCEPT ![table[j]].result =
                                            @ + objs[i].result],
                   table |-> table,
                   objResult |-> objResult]
             ELSE [objs |-> objs,
                   table |-> table,
                   objResult |-> Plus(objResult, objs[i].result)]
        ELSE [objs |-> objs,
              table |-> Append(table, i),
              objResult |-> objResult]

NoMerge ==
    /\ mergeInput = <<>>
    /\ mergeOrder = <<>>
    /\ mergePos = 0
    /\ objects = <<>>
    /\ mergedHashTable = <<>>
    /\ objectResult = Undefined

----------------------------------------------------------------------------
(* The requests of the 'Total events per project' charts *)

EventCharts == {"chartEventsPerProject", "chartEventsPerProjectPie"}

\* The objects of the query results of these charts.
ChartObjects ==
    { [key |-> "A", result |-> 1], [key |-> "A", result |-> 2],
      [key |-> "B", result |-> 1], [key |-> "constructor", result |-> 1] }

SeqsUpTo(S, n) == UNION {[1..k -> S] : k \in 0..n}

\* Result of a query that is not grouped by interval.
FlatResults == {[result |-> r] : r \in SeqsUpTo(ChartObjects, MaxFlat)}

\* The series values of one interval: none or one object.
BucketValues == {<<>>} \cup {<<o>> : o \in ChartObjects}

\* Result number q of a batch, grouped by interval: a list of buckets.  The
\* timeframe of a bucket names the query and the position it comes from.
IntervalResults(q) ==
    { [result |-> [i \in 1..Len(v) |->
                      [timeframe |-> <<q, i>>, value |-> v[i]]]] :
        v \in SeqsUpTo(BucketValues, MaxBuckets) }

NoError == [message |-> Undefined]

\* client.run hands the callback an error, or the results of the two
\* queries of the batch, in the order of the queries.
Outcomes(chart) ==
    { [err |-> [message |-> "Timeout"], res |-> <<>>] }
    \cup
    IF chart = "chartEventsPerProjectPie"
    THEN { [err |-> NoError, res |-> <<r1, r2>>] :
             r1 \in FlatResults, r2 \in FlatResults }
    ELSE { [err |-> NoError, res |-> <<r1, r2>>] :
             r1 \in IntervalResults(1), r2 \in IntervalResults(2) }

\* s1 followed by s2, ... for a sequence of sequences
Flatten(ss) ==
    LET F[k \in 0..Len(ss)] == IF k = 0 THEN <<>> ELSE F[k - 1] \o ss[k]
    IN  F[Len(ss)]

\* mergeSum called for every object of objs in turn, on the hash table
\* `table` (positions in objs), Object.result being objResult.
MergeEach(objs, objResult) ==
    LET M[k \in 0..Len(objs)] ==
            IF k = 0
            THEN [objs |-> objs, table |-> <<>>, objResult |-> objResult]
            ELSE mergeSum(k, M[k - 1].objs, M[k - 1].table,
                          M[k - 1].objResult)
    IN  M[Len(objs)]

\* removeKeys(mergedHash): the values of the hash table in insertion order.
removeKeys(merged) ==
    [j \in 1..Len(merged.table) |-> merged.objs[merged.table[j]]]

\* The merge of chartEventsPerProjectPie: one hash table for the objects of
\* all results.
FlatMerge(res, objResult) ==
    LET merged == MergeEach(Flatten([q \in 1..Len(res) |-> res[q].result]),
                            objResult)
    IN  [data |-> removeKeys(merged), objResult |-> merged.objResult,
         thrown |-> FALSE]

\* Variant: a result that has no bucket i is skipped and the merge goes on.
SkippingIntervalMerge(res, objResult) ==
    LET result1 == res[1].result
        Values(i) ==
            Flatten([q \in 1..Len(res) |->
                        IF i <= Len(res[q].result)
                        THEN res[q].result[i].value ELSE <<>>])
        W[i \in 0..Len(result1)] ==
            IF i = 0
            THEN [data |-> <<>>, objResult |-> objResult, thrown |-> FALSE]
            ELSE LET merged == MergeEach(Values(i), W[i - 1].objResult)
                 IN  [data |-> Append(W[i - 1].data,
                                 [timeframe |-> result1[i].timeframe,
                                  value |-> removeKeys(merged)]),
                      objResult |-> merged.objResult,
                      thrown |-> FALSE]
    IN  W[Len(result1)]
\* The merge of chartEventsPerProject: for every bucket of the first result
\* a new hash table for the objects of that bucket in all results.  Reading
\* `.value` of a bucket that a result does not have throws a TypeError.
IntervalMerge(res, objResult) ==
    LET result1 == res[1].result
        Has(q, i) == i <= Len(res[q].result)
        \* the results before the first one that has no bucket i
        Before(i) == {q \in 1..Len(res) : \A p \in 1..q : Has(p, i)}
        Values(i, qs) ==
            Flatten([q \in 1..Cardinality(qs) |-> res[q].result[i].value])
        W[i \in 0..Len(result1)] ==
            IF i = 0
            THEN [data |-> <<>>, objResult |-> objResult, thrown |-> FALSE]
            ELSE IF W[i - 1].thrown THEN W[i - 1]
            ELSE LET merged == MergeEach(Values(i, Before(i)),
                                         W[i - 1].objResult)
                 IN  IF Before(i) = 1..Len(res)
                     THEN [data |-> Append(W[i - 1].data,
                                      [timeframe |-> result1[i].timeframe,
                                       value |-> removeKeys(merged)]),
                           objResult |-> merged.objResult,
                           thrown |-> FALSE]
                     ELSE [data |-> W[i - 1].data,
                           objResult |-> merged.objResult,
                           thrown |-> TRUE]
    IN  W[Len(result1)]

Merge(chart, res, objResult) ==
    IF chart = "chartEventsPerProjectPie"
    THEN FlatMerge(res, objResult)
    ELSE IntervalMerge(res, objResult)

NoEvents ==
    /\ evChart = Undefined
    /\ evOutcome = Undefined
    /\ evRuns = 0
    /\ evInFlight = 0
    /\ evErrors = <<>>
    /\ evRendered = <<>>
    /\ evAggregations = 0
    /\ evThrown = 0

----------------------------------------------------------------------------
(* Two button groups on one page *)

\* The names the two instances are constructed with.
GroupNames == {"count", "timeframe"}

\* The button lists and the default button each instance is constructed
\* with: the count buttons of the dashboard or no list at all.
TwoButtonLists == {<<"builds", "jobs">>, <<>>}
TwoDefaultArg(name) == IF name = "count" THEN "jobs" ELSE Undefined

\* The values the page address may hold for a name.
UrlValues == {Undefined, "jobs", "button2"}

\* Strings are sequences of pieces; + is concatenation.
buttonPrefix(name) == <<name, "_">>

\* Variant: the selector leaves the prefix of the group out.
BareButtonName(prefix, button) == <<"#">> \o <<button>>
getButtonName(prefix, button) == <<"#">> \o prefix \o <<button>>

\* The elements of a group, and the button an element stands for.
Elements(name, names) ==
    {getButtonName(buttonPrefix(name), b) : b \in Range(names)}
ButtonOf(name, names, element) ==
    CHOOSE b \in Range(names) : getButtonName(buttonPrefix(name), b) = element

\* formatButtons of one group, on the class attributes of the document
formatElements(name, names, current, document) ==
    [e \in DOMAIN document |->
        IF e \in Elements(name, names)
        THEN formatButtons(names, current)[ButtonOf(name, names, e)]
        ELSE document[e]]

NoTwo ==
    /\ twoUrl = [g \in GroupNames |-> Undefined]
    /\ twoButtonList = [g \in GroupNames |-> PlaceholderButtons]
    /\ twoDefault = [g \in GroupNames |-> PlaceholderButtons[1]]
    /\ twoCurrent = [g \in GroupNames |-> PlaceholderButtons[1]]
    /\ twoClasses = <<>>
    /\ twoAttached = <<>>
    /\ twoCalls = [g \in GroupNames |-> 0]
    /\ twoActor = Undefined

----------------------------------------------------------------------------
(* The count buttons and the 'per project' count charts *)

BUTTON_COUNT_NAME == "count"
BUTTON_COUNT_DEFAULT == "jobs"
BUTTONS_COUNT ==
    [builds |-> [caption |-> "Builds",
                 keenEventCollection |-> "build_jobs",
                 keenTargetProperty |-> "job.build"],
     jobs |-> [caption |-> "Build jobs",
               keenEventCollection |-> "build_jobs",
               keenTargetProperty |-> "job.job"]]
CountButtonNames == <<"builds", "jobs">>

CountCharts == {"chartBuildsPerProject", "chartBuildsPerProjectPie"}

\* chartsUpdate: every chart of the page.
ChartsUpdate ==
    {"metricTotalRepos", "metricTotalBuildJobs", "metricTotalSubStages",
     "metricTotalEvents", "chartUniqueRepos", "chartStagesPerProject",
     "chartStagesPerProjectPie"} \cup CountCharts \cup EventCharts

\* The charts whose requests hold a query of a count chart; the requests
\* of these are followed until their callback has run.
TrackedCharts == CountCharts \cup EventCharts

\* The query of a count chart that the batch of a chart holds:
\* chartStagesPerProject.queries.concat(chartBuildsPerProject.queries)
BatchQuery(chart, queries) ==
    IF chart \in CountCharts THEN queries[chart]
    ELSE IF chart = "chartEventsPerProject"
         THEN queries["chartBuildsPerProject"]
         ELSE queries["chartBuildsPerProjectPie"]

\* The fields read from what getCurrentButton returns: the settings of a
\* button of the list, and undefined on any other object.
Settings(object) ==
    IF object \in DOMAIN BUTTONS_COUNT
    THEN BUTTONS_COUNT[object]
    ELSE [caption |-> Undefined, keenEventCollection |-> Undefined,
          keenTargetProperty |-> Undefined]

\* eventCollection and targetProperty as the charts are given them
QueryOf(countSettings) ==
    [eventCollection |-> countSettings.keenEventCollection,
     targetProperty |-> countSettings.keenTargetProperty]

\* countSettings.caption + ' per project'
TitleOf(countSettings) == <<countSettings.caption, " per project">>

NothingShown == [kind |-> "none"]
Prepared == [kind |-> "prepare"]

\* client.run(chart.queries, callback): the request carries the parameters
\* the query has when it is issued; `option` records the current button.
Request(chart, id, query, option) ==
    [chart |-> chart, id |-> id, query |-> query, option |-> option]

\* What the callback of a request may be given (err or res), as the chart
\* shows it: chart.error(err.message) or chart.data(res).render().
Answers(request) ==
    {[kind |-> "error", message |-> "err.message"],
     [kind |-> "data", request |-> request]}

\* chart.request() of every chart in `charts`
RequestAll(charts, queries, requests, inFlight, option) ==
    [requests |-> [c \in DOMAIN requests |->
                      IF c \in charts THEN requests[c] + 1 ELSE requests[c]],
     inFlight |-> inFlight \cup
                  {Request(c, requests[c] + 1, BatchQuery(c, queries), option) :
                      c \in charts \cap TrackedCharts}]

\* updateCharts(): every chart of chartsUpdate is requested
updateCharts(queries, requests, inFlight, option) ==
    RequestAll(ChartsUpdate, queries, requests, inFlight, option)

\* Variant: after the queries are set every chart of the page is requested.
RefreshAllUpdateCountCharts(current, names, nf, queries, requests, inFlight, display) ==
    LET countSettings == Settings(getCurrentButton(current, names, nf).object)
        updated == [c \in CountCharts |-> QueryOf(countSettings)]
        run == RequestAll(ChartsUpdate, updated, requests, inFlight, current)
    IN  [queries |-> updated,
         titles |-> [c \in CountCharts |-> TitleOf(countSettings)],
         display |-> [c \in DOMAIN display |->
                         IF c \in CountCharts THEN Prepared ELSE display[c]],
         requests |-> run.requests,
         inFlight |-> run.inFlight]
updateCountCharts(current, names, nf, queries, requests, inFlight, display) ==
    LET countSettings == Settings(getCurrentButton(current, names, nf).object)
        updated == [c \in CountCharts |-> QueryOf(countSettings)]
        run == RequestAll(CountCharts, updated, requests, inFlight, current)
    IN  [queries |-> updated,
         titles |-> [c \in CountCharts |-> TitleOf(countSettings)],
         display |-> [c \in DOMAIN display |->
                         IF c \in CountCharts THEN Prepared ELSE display[c]],
         requests |-> run.requests,
         inFlight |-> run.inFlight]

NoCount ==
    /\ countReady = FALSE
    /\ countQueries = [c \in CountCharts |-> QueryOf(Settings(Undefined))]
    /\ countTitles = [c \in CountCharts |-> <<>>]
    /\ countRequests = [c \in ChartsUpdate |-> 0]
    /\ countInFlight = {}
    /\ countDisplay = [c \in TrackedCharts |-> NothingShown]

Others == <<mergeVars, eventsVars, pageVars>>

----------------------------------------------------------------------------
(* State after construction *)

NoCall(op, arg) == [op |-> op, arg |-> arg, before |-> Undefined,
                    result |-> [object |-> Undefined, name |-> Undefined]]

Init ==
    \E args \in ConstructorArgs :
      LET names == ButtonList(args.buttonList)
          general == args.onClick IN
      \E button \in KeyInputs(names), own \in {args.withOnClick} :
        /\ buttonNames = names
        /\ onClickButtons = Range(names) \cap own
        /\ onClick = general
        /\ nameField = [b \in Range(names) |-> Undefined]
        /\ defaultButton = setDefaultButton(button, names)
        /\ currentButton = setDefaultButton(button, names)
        /\ classes = [b \in Range(names) |-> CLASS_BUTTON_DEFAULT]
        /\ handlers = [b \in Range(names) |-> 0]
        /\ initCount = 0
        /\ pc = 0
        /\ clicked = Undefined
        /\ pending = 0
        /\ trace = <<>>
        /\ clicks = [b \in Range(names) |-> 0]
        /\ generalCalls = 0
        /\ buttonCalls = [b \in Range(names) |-> 0]
        /\ lastCall = NoCall("new", button)
        /\ NoMerge
        /\ NoEvents
        /\ NoTwo
        /\ NoCount

----------------------------------------------------------------------------
(* Public methods called by the page *)

Config == <<buttonNames, onClickButtons, onClick, defaultButton>>
Counters == <<clicks, generalCalls, buttonCalls>>

\* buttons.initButtons(), the page address holding `param` for this.name
initButtons(param) ==
    /\ pc = 0
    /\ initCount < MaxInit
    /\ currentButton' = setCurrentButton(getUrlParameter(param), currentButton,
                                         defaultButton, buttonNames)
    /\ handlers' = [b \in Range(buttonNames) |-> handlers[b] + 1]
    /\ classes' = formatButtons(buttonNames, currentButton')
    /\ initCount' = initCount + 1
    /\ lastCall' = NoCall("initButtons", param)
    /\ trace' = <<>>
    /\ UNCHANGED <<Others, Config, nameField, pc, clicked, pending, Counters>>

\* Variant: the button that becomes current also becomes the default.
DefaultingSetCurrentButtonCall(button) ==
    /\ pc = 0
    /\ currentButton' = setCurrentButton(button, currentButton, defaultButton,
                                         buttonNames)
    /\ defaultButton' = currentButton'
    /\ lastCall' = [NoCall("setCurrentButton", button)
                        EXCEPT !.before = currentButton]
    /\ trace' = <<>>
    /\ UNCHANGED <<Others, buttonNames, onClickButtons, onClick, nameField,
                   classes, handlers, initCount, pc, clicked, pending,
                   Counters>>
\* buttons.setCurrentButton(button)
SetCurrentButtonCall(button) ==
    /\ pc = 0
    /\ currentButton' = setCurrentButton(button, currentButton, defaultButton,
                                         buttonNames)
    /\ lastCall' = [NoCall("setCurrentButton", button)
                        EXCEPT !.before = currentButton]
    /\ trace' = <<>>
    /\ UNCHANGED <<Others, Config, nameField, classes, handlers, initCount, pc,
                   clicked, pending, Counters>>

\* buttons.getCurrentButton()
GetCurrentButtonCall ==
    /\ pc = 0
    /\ nameField' = nameFieldAfterGet(currentButton, buttonNames, nameField)
    /\ lastCall' = [NoCall("getCurrentButton", Undefined)
                        EXCEPT !.result = getCurrentButton(currentButton,
                                              buttonNames, nameField)]
    /\ trace' = <<>>
    /\ UNCHANGED <<Others, Config, currentButton, classes, handlers, initCount,
                   pc, clicked, pending, Counters>>

\* buttons.formatButtons()
FormatButtonsCall ==
    /\ pc = 0
    /\ classes' = formatButtons(buttonNames, currentButton)
    /\ lastCall' = NoCall("formatButtons", Undefined)
    /\ trace' = <<>>
    /\ UNCHANGED <<Others, Config, nameField, currentButton, handlers, initCount,
                   pc, clicked, pending, Counters>>

----------------------------------------------------------------------------
(* A click on the element of a button, and the handler statements *)

TotalClicks == LET S == Range(buttonNames)
                   Sum[T \in SUBSET S] ==
                       IF T = {} THEN 0
                       ELSE LET b == CHOOSE x \in T : TRUE
                            IN  clicks[b] + Sum[T \ {b}]
               IN  Sum[S]

\* The user clicks the element of `button`: jQuery runs every handler
\* attached to it, one after the other.
Click(button) ==
    /\ pc = 0
    /\ handlers[button] > 0
    /\ TotalClicks < MaxClicks
    /\ pc' = 1
    /\ clicked' = button
    /\ pending' = handlers[button]
    /\ trace' = <<>>
    /\ clicks' = [clicks EXCEPT ![button] = @ + 1]
    /\ lastCall' = NoCall("click", button)
    /\ UNCHANGED <<Others, Config, nameField, currentButton, classes, handlers,
                   initCount, generalCalls, buttonCalls>>

AtStatement(stmt) == pc > 0 /\ ClickHandlerOrder[pc] = stmt

\* What a callback (or an observer of the statement) sees.
Event(stmt, current, cls) ==
    [step |-> stmt, currentButton |-> current, classes |-> cls]

\* Move to the next statement; after the last one the next handler of the
\* element starts, or the click is done.
Advance(newTrace) ==
    IF pc < Len(ClickHandlerOrder)
    THEN /\ pc' = pc + 1
         /\ trace' = newTrace
         /\ UNCHANGED <<pending, clicked, lastCall>>
    ELSE /\ pending' = pending - 1
         /\ pc' = IF pending > 1 THEN 1 ELSE 0
         /\ trace' = newTrace
         /\ UNCHANGED lastCall
         /\ clicked' = IF pending > 1 THEN clicked ELSE Undefined

\* The trace of the handler that starts now is empty.
CurrentTrace == IF pc = 1 THEN <<>> ELSE trace

\* Variant: a click on the button that is already current returns at once.
EarlyReturnHandlerSetCurrentButton ==
    /\ AtStatement("setCurrentButton")
    /\ IF clicked = currentButton
       THEN /\ pending' = pending - 1
            /\ pc' = IF pending > 1 THEN 1 ELSE 0
            /\ clicked' = IF pending > 1 THEN clicked ELSE Undefined
            /\ trace' = CurrentTrace
            /\ UNCHANGED <<currentButton, lastCall>>
       ELSE /\ currentButton' = setCurrentButton(clicked, currentButton,
                                                 defaultButton, buttonNames)
            /\ Advance(Append(CurrentTrace,
                    Event("setCurrentButton", currentButton', classes)))
    /\ UNCHANGED <<Others, Config, nameField, classes, handlers, initCount, Counters>>

\* classInstance.setCurrentButton(button);
HandlerSetCurrentButton ==
    /\ AtStatement("setCurrentButton")
    /\ currentButton' = setCurrentButton(clicked, currentButton, defaultButton,
                                         buttonNames)
    /\ Advance(Append(CurrentTrace,
                      Event("setCurrentButton", currentButton', classes)))
    /\ UNCHANGED <<Others, Config, nameField, classes, handlers, initCount, Counters>>

\* classInstance.formatButtons();
HandlerFormatButtons ==
    /\ AtStatement("formatButtons")
    /\ classes' = formatButtons(buttonNames, currentButton)
    /\ Advance(Append(CurrentTrace,
                      Event("formatButtons", currentButton, classes')))
    /\ UNCHANGED <<Others, Config, nameField, currentButton, handlers, initCount,
                   Counters>>

\* if (!isEmpty(classInstance.onClick)) { classInstance.onClick(); }
HandlerOnClick ==
    /\ AtStatement("onClick")
    /\ IF ~isEmpty(onClick)
       THEN /\ generalCalls' = generalCalls + 1
            /\ Advance(Append(CurrentTrace,
                              Event("onClick", currentButton, classes)))
       ELSE /\ UNCHANGED generalCalls
            /\ Advance(CurrentTrace)
    /\ UNCHANGED <<Others, Config, nameField, currentButton, classes, handlers,
                   initCount, clicks, buttonCalls>>

\* if ('onClick' in classInstance.buttonList[button]) { ...onClick(); }
HandlerButtonOnClick ==
    /\ AtStatement("button.onClick")
    /\ IF clicked \in onClickButtons
       THEN /\ buttonCalls' = [buttonCalls EXCEPT ![clicked] = @ + 1]
            /\ Advance(Append(CurrentTrace,
                              Event("button.onClick", currentButton, classes)))
       ELSE /\ UNCHANGED buttonCalls
            /\ Advance(CurrentTrace)
    /\ UNCHANGED <<Others, Config, nameField, currentButton, classes, handlers,
                   initCount, clicks, generalCalls>>

----------------------------------------------------------------------------

Next ==
    \/ \E param \in KeyInputs(buttonNames) : initButtons(param)
    \/ \E button \in KeyInputs(buttonNames) : SetCurrentButtonCall(button)
    \/ GetCurrentButtonCall
    \/ FormatButtonsCall
    \/ \E button \in Range(buttonNames) : Click(button)
    \/ HandlerSetCurrentButton
    \/ HandlerFormatButtons
    \/ HandlerOnClick
    \/ HandlerButtonOnClick

Spec == Init /\ [][Next]_vars

----------------------------------------------------------------------------
(* A series of mergeSum calls on a fresh hash table *)

Orders(n) ==
    {p \in [1..n -> 1..n] : \A i, j \in 1..n : i # j => p[i] # p[j]}

\* The button group is not used by the aggregation.
NoButtons ==
    /\ buttonNames = PlaceholderButtons
    /\ onClickButtons = {}
    /\ onClick = ""
    /\ nameField = [b \in Range(PlaceholderButtons) |-> Undefined]
    /\ defaultButton = PlaceholderButtons[1]
    /\ currentButton = PlaceholderButtons[1]
    /\ classes = [b \in Range(PlaceholderButtons) |-> CLASS_BUTTON_DEFAULT]
    /\ handlers = [b \in Range(PlaceholderButtons) |-> 0]
    /\ initCount = 0
    /\ pc = 0
    /\ clicked = Undefined
    /\ pending = 0
    /\ trace = <<>>
    /\ clicks = [b \in Range(PlaceholderButtons) |-> 0]
    /\ generalCalls = 0
    /\ buttonCalls = [b \in Range(PlaceholderButtons) |-> 0]
    /\ lastCall = NoCall("new", Undefined)

\* var mergedHash = {}; and the objects of the query results to merge
MergeInit ==
    /\ NoButtons
    /\ \E n \in 0..MaxEntries :
         \E input \in [1..n -> MergeObjects], order \in Orders(n) :
            /\ mergeInput = input
            /\ mergeOrder = order
            /\ objects = input
    /\ mergePos = 0
    /\ mergedHashTable = <<>>
    /\ objectResult = Undefined
    /\ NoEvents
    /\ NoTwo
    /\ NoCount

\* mergeSum(this, mergedHash, PROJECT_NAME_PROPERTY) for the next object
MergeSumCall ==
    /\ mergePos < Len(mergeOrder)
    /\ LET after == mergeSum(mergeOrder[mergePos + 1], objects,
                             mergedHashTable, objectResult)
       IN  /\ objects' = after.objs
           /\ mergedHashTable' = after.table
           /\ objectResult' = after.objResult
    /\ mergePos' = mergePos + 1
    /\ UNCHANGED <<mergeInput, mergeOrder, buttonVars, eventsVars, pageVars>>

MergeNext == MergeSumCall

SpecMerge == MergeInit /\ [][MergeNext]_vars

----------------------------------------------------------------------------
(* The request of a 'Total events per project' chart and its callback *)

EventsInit ==
    /\ NoButtons
    /\ mergeInput = <<>>
    /\ mergeOrder = <<>>
    /\ mergePos = 0
    /\ objects = <<>>
    /\ mergedHashTable = <<>>
    /\ objectResult = Undefined
    /\ \E chart \in EventCharts :
         \E outcome \in Outcomes(chart) :
            /\ evChart = chart
            /\ evOutcome = outcome
    /\ evRuns = 0
    /\ evInFlight = 0
    /\ evErrors = <<>>
    /\ evRendered = <<>>
    /\ evAggregations = 0
    /\ evThrown = 0
    /\ NoTwo
    /\ NoCount

\* chart.request(): client.run(queries, callback)
EventsRequest ==
    /\ evRuns < MaxRuns
    /\ evRuns' = evRuns + 1
    /\ evInFlight' = evInFlight + 1
    /\ UNCHANGED <<evChart, evOutcome, evErrors, evRendered, evAggregations,
                   evThrown, buttonVars, mergeVars, pageVars>>

\* Variant: a failed batch is requested again.
RetryEventsCallback ==
    /\ evInFlight > 0
    /\ IF evOutcome.err # NoError
       THEN /\ evErrors' = Append(evErrors, evOutcome.err.message)
            /\ evRuns' = evRuns + 1
            /\ evInFlight' = IF evRuns < MaxRuns THEN evInFlight
                             ELSE evInFlight - 1
            /\ UNCHANGED <<evRendered, evAggregations, evThrown,
                           objectResult>>
       ELSE LET merged == Merge(evChart, evOutcome.res, objectResult)
            IN  /\ evAggregations' = evAggregations + 1
                /\ objectResult' = merged.objResult
                /\ evInFlight' = evInFlight - 1
                /\ IF merged.thrown
                   THEN /\ evThrown' = evThrown + 1
                        /\ UNCHANGED evRendered
                   ELSE /\ evRendered' = Append(evRendered, merged.data)
                        /\ UNCHANGED evThrown
                /\ UNCHANGED <<evErrors, evRuns>>
    /\ UNCHANGED <<evChart, evOutcome, buttonVars, mergeInput, mergeOrder,
                   mergePos, objects, mergedHashTable, pageVars>>

\* function(err, res) { if (err) { chart.error(err.message); } else { merge
\* the results; chart.data({result: ...}).render(); } }
EventsCallback ==
    /\ evInFlight > 0
    /\ evInFlight' = evInFlight - 1
    /\ IF evOutcome.err # NoError
       THEN /\ evErrors' = Append(evErrors, evOutcome.err.message)
            /\ UNCHANGED <<evRendered, evAggregations, evThrown,
                           objectResult>>
       ELSE LET merged == Merge(evChart, evOutcome.res, objectResult)
            IN  /\ evAggregations' = evAggregations + 1
                /\ objectResult' = merged.objResult
                /\ IF merged.thrown
                   THEN /\ evThrown' = evThrown + 1
                        /\ UNCHANGED evRendered
                   ELSE /\ evRendered' = Append(evRendered, merged.data)
                        /\ UNCHANGED evThrown
                /\ UNCHANGED evErrors
    /\ UNCHANGED <<evChart, evOutcome, evRuns, buttonVars, mergeInput,
                   mergeOrder, mergePos, objects, mergedHashTable, pageVars>>

EventsNext == EventsRequest \/ EventsCallback

SpecEvents == EventsInit /\ [][EventsNext]_vars

----------------------------------------------------------------------------
(* Two button groups on one page: construction, methods and clicks *)

\* new ButtonClass(name, buttonList, defaultButton) for both names; the
\* elements of the buttons are in the document
TwoInit ==
    /\ NoButtons
    /\ mergeInput = <<>>
    /\ mergeOrder = <<>>
    /\ NoMerge
    /\ NoEvents
    /\ NoCount
    /\ twoUrl \in [GroupNames -> UrlValues]
    /\ \E lists \in [GroupNames -> TwoButtonLists] :
         LET names == [g \in GroupNames |-> ButtonList(lists[g])]
             default == [g \in GroupNames |->
                            setDefaultButton(TwoDefaultArg(g), names[g])]
         IN  /\ twoButtonList = names
             /\ twoDefault = default
             /\ twoCurrent = default
             /\ twoClasses =
                   [e \in UNION {Elements(g, names[g]) : g \in GroupNames}
                       |-> CLASS_BUTTON_DEFAULT]
    /\ twoAttached = <<>>
    /\ twoCalls = [g \in GroupNames |-> 0]
    /\ twoActor = Undefined

TwoConfig == <<twoUrl, twoButtonList, twoDefault>>

\* group.initButtons(): the page initialises each group once
TwoInitButtons(g) ==
    /\ g \notin Range(twoAttached)
    /\ twoCurrent' = [twoCurrent EXCEPT ![g] =
          setCurrentButton(getUrlParameter(twoUrl[g]), twoCurrent[g],
                           twoDefault[g], twoButtonList[g])]
    /\ twoAttached' = Append(twoAttached, g)
    /\ twoClasses' = formatElements(g, twoButtonList[g], twoCurrent'[g],
                                    twoClasses)
    /\ twoActor' = g
    /\ UNCHANGED <<TwoConfig, twoCalls, buttonVars, mergeVars, eventsVars,
                   countVars>>

\* group.setCurrentButton(button)
TwoSetCurrentButton(g, button) ==
    /\ twoCurrent' = [twoCurrent EXCEPT ![g] =
          setCurrentButton(button, twoCurrent[g], twoDefault[g],
                           twoButtonList[g])]
    /\ twoActor' = g
    /\ UNCHANGED <<TwoConfig, twoClasses, twoAttached, twoCalls, buttonVars,
                   mergeVars, eventsVars, countVars>>

\* The click handlers bound to an element run in the order they were bound:
\* the state after the handlers of the groups in `bound`.
RECURSIVE RunHandlers(_, _, _)
RunHandlers(bound, element, state) ==
    IF bound = <<>>
    THEN state
    ELSE LET g == Head(bound)
             names == twoButtonList[g]
         IN  IF element \in Elements(g, names)
             THEN LET current == setCurrentButton(ButtonOf(g, names, element),
                                     state.current[g], twoDefault[g], names)
                  IN  RunHandlers(Tail(bound), element,
                        [current |-> [state.current EXCEPT ![g] = current],
                         classes |-> formatElements(g, names, current,
                                                    state.classes),
                         calls |-> [state.calls EXCEPT ![g] = @ + 1]])
             ELSE RunHandlers(Tail(bound), element, state)

\* A click on the element of button `button` of group g
TwoClick(g, button) ==
    /\ g \in Range(twoAttached)
    /\ button \in Range(twoButtonList[g])
    /\ twoCalls[g] < MaxClicks
    /\ LET after == RunHandlers(twoAttached,
                       getButtonName(buttonPrefix(g), button),
                       [current |-> twoCurrent, classes |-> twoClasses,
                        calls |-> twoCalls])
       IN  /\ twoCurrent' = after.current
           /\ twoClasses' = after.classes
           /\ twoCalls' = after.calls
    /\ twoActor' = g
    /\ UNCHANGED <<TwoConfig, twoAttached, buttonVars, mergeVars, eventsVars,
                   countVars>>

TwoNext ==
    \E g \in GroupNames :
        \/ TwoInitButtons(g)
        \/ \E button \in KeyInputs(twoButtonList[g]) :
              TwoSetCurrentButton(g, button)
        \/ \E button \in Range(twoButtonList[g]) : TwoClick(g, button)

SpecTwo == TwoInit /\ [][TwoNext]_vars

----------------------------------------------------------------------------
(* The count buttons of the dashboard and the charts they select *)

\* var countButtons = new ButtonClass(BUTTON_COUNT_NAME, BUTTONS_COUNT,
\* BUTTON_COUNT_DEFAULT); countButtons.onClick = function() {...};
CountInit ==
    /\ buttonNames = CountButtonNames
    /\ onClickButtons = {}
    /\ onClick = "function"
    /\ nameField = [b \in Range(CountButtonNames) |-> Undefined]
    /\ defaultButton = setDefaultButton(BUTTON_COUNT_DEFAULT, CountButtonNames)
    /\ currentButton = setDefaultButton(BUTTON_COUNT_DEFAULT, CountButtonNames)
    /\ classes = [b \in Range(CountButtonNames) |-> CLASS_BUTTON_DEFAULT]
    /\ handlers = [b \in Range(CountButtonNames) |-> 0]
    /\ initCount = 0
    /\ pc = 0
    /\ clicked = Undefined
    /\ pending = 0
    /\ trace = <<>>
    /\ clicks = [b \in Range(CountButtonNames) |-> 0]
    /\ generalCalls = 0
    /\ buttonCalls = [b \in Range(CountButtonNames) |-> 0]
    /\ lastCall = NoCall("new", BUTTON_COUNT_DEFAULT)
    /\ mergeInput = <<>>
    /\ mergeOrder = <<>>
    /\ NoMerge
    /\ NoEvents
    /\ NoTwo
    /\ NoCount

Unused == <<pc, clicked, pending, trace, buttonCalls, mergeVars, eventsVars,
            twoVars>>

\* initCharts(), the page address holding `param` for 'count'
InitCharts(param) ==
    /\ ~countReady
    /\ countReady' = TRUE
    /\ currentButton' = setCurrentButton(getUrlParameter(param), currentButton,
                                         defaultButton, buttonNames)
    /\ handlers' = [b \in Range(buttonNames) |-> handlers[b] + 1]
    /\ classes' = formatButtons(buttonNames, currentButton')
    /\ initCount' = initCount + 1
    /\ nameField' = nameFieldAfterGet(currentButton', buttonNames, nameField)
    /\ LET countSettings == Settings(getCurrentButton(currentButton',
                                        buttonNames, nameField).object)
           queries == [c \in CountCharts |-> QueryOf(countSettings)]
           run == updateCharts(queries, countRequests, countInFlight,
                               currentButton')
       IN  /\ countQueries' = queries
           /\ countTitles' = [c \in CountCharts |-> TitleOf(countSettings)]
           /\ countDisplay' = [c \in TrackedCharts |-> Prepared]
           /\ countRequests' = run.requests
           /\ countInFlight' = run.inFlight
    /\ lastCall' = NoCall("initCharts", Undefined)
    /\ UNCHANGED <<Unused, Config, Counters>>

\* A click on the element of a count button: the whole handler, with
\* countButtons.onClick, that is updateCountCharts()
CountClick(button) ==
    /\ handlers[button] > 0
    /\ clicks[CountButtonNames[1]] + clicks[CountButtonNames[2]] < MaxClicks
    /\ currentButton' = setCurrentButton(button, currentButton, defaultButton,
                                         buttonNames)
    /\ classes' = formatButtons(buttonNames, currentButton')
    /\ clicks' = [clicks EXCEPT ![button] = @ + 1]
    /\ generalCalls' = generalCalls + 1
    /\ nameField' = nameFieldAfterGet(currentButton', buttonNames, nameField)
    /\ LET after == updateCountCharts(currentButton', buttonNames, nameField,
                        countQueries, countRequests, countInFlight,
                        countDisplay)
       IN  /\ countQueries' = after.queries
           /\ countTitles' = after.titles
           /\ countDisplay' = after.display
           /\ countRequests' = after.requests
           /\ countInFlight' = after.inFlight
    /\ lastCall' = [NoCall("click", button) EXCEPT !.before = currentButton]
    /\ UNCHANGED <<Unused, Config, handlers, initCount, countReady>>

\* Variant: a response to a request that is not the latest of its chart is
\* dropped.
LatestOnlyCountResponse(request, answer) ==
    /\ request \in countInFlight
    /\ answer \in Answers(request)
    /\ countInFlight' = countInFlight \ {request}
    /\ countDisplay' = IF request.id = countRequests[request.chart]
                       THEN [countDisplay EXCEPT ![request.chart] = answer]
                       ELSE countDisplay
    /\ UNCHANGED <<buttonVars, mergeVars, eventsVars, twoVars, countReady,
                   countQueries, countTitles, countRequests>>
\* The callback of a request: function(err, res) { if (err) {
\* chart.error(err.message); } else { chart.data(res).render(); } }
CountResponse(request, answer) ==
    /\ request \in countInFlight
    /\ answer \in Answers(request)
    /\ countInFlight' = countInFlight \ {request}
    /\ countDisplay' = [countDisplay EXCEPT ![request.chart] = answer]
    /\ UNCHANGED <<buttonVars, mergeVars, eventsVars, twoVars, countReady,
                   countQueries, countTitles, countRequests>>

CountNext ==
    \/ \E param \in KeyInputs(buttonNames) : InitCharts(param)
    \/ \E button \in Range(buttonNames) : CountClick(button)
    \/ \E request \in countInFlight :
          \E answer \in Answers(request) : CountResponse(request, answer)

SpecCount == CountInit /\ [][CountNext]_vars

----------------------------------------------------------------------------
(* Properties of the selection group *)

IsButton(key) == key \in Range(buttonNames)

\* The classes of a group in which exactly `button` is active.
OnlyActive(button) ==
    [b \in Range(buttonNames) |->
        IF b = button THEN CLASS_BUTTON_ACTIVE ELSE CLASS_BUTTON_NORMAL]

Idle == pc = 0

\* C1: in every reachable state currentButton is one of the configured
\* buttons (a key of buttonList); the group never holds a key that is not
\* in its configuration.
C1_CurrentIsConfigured == IsButton(currentButton)

\* C2 (as claimed): setCurrentButton(key) with a key that is empty or not a
\* configured button leaves a previously valid currentButton unchanged.
\* Stated for the keys that the button list does not know at all; the keys
\* that name an inherited property are the subject of C1.
C2_InvalidKeyKeepsCurrent ==
    ( /\ lastCall.op = "setCurrentButton"
      /\ ~InButtonList(lastCall.arg, buttonNames)
      /\ IsButton(lastCall.before) )
    => currentButton = lastCall.before

\* C2 (amended): setCurrentButton(key) with a key that is empty or not a
\* configured button sets currentButton to defaultButton, whatever it was
\* before; only a non-empty key that names an inherited property of the
\* button list is adopted instead.
C2_InvalidKeyResetsToDefault ==
    ( /\ lastCall.op = "setCurrentButton"
      /\ ~IsButton(lastCall.arg) )
    => currentButton = IF lastCall.arg \in InheritedProps
                       THEN lastCall.arg
                       ELSE defaultButton

\* An invalid key replaced a valid current button, which was not the default
\* one, by the default button.
C2_Witness ==
    /\ lastCall.op = "setCurrentButton"
    /\ lastCall.arg = "bogus"
    /\ IsButton(lastCall.before)
    /\ lastCall.before # defaultButton
    /\ currentButton = defaultButton

\* C3: setCurrentButton(key) with a non-empty key that is a configured
\* button ends with currentButton equal to key, whatever currentButton and
\* defaultButton were before.
C3_ValidKeyIsAdopted ==
    ( /\ lastCall.op = "setCurrentButton"
      /\ ~isEmpty(lastCall.arg)
      /\ IsButton(lastCall.arg) )
    => currentButton = lastCall.arg

\* A valid key, neither the current nor the default button, was adopted.
C3_Witness ==
    /\ lastCall.op = "setCurrentButton"
    /\ IsButton(lastCall.arg)
    /\ lastCall.arg # lastCall.before
    /\ lastCall.arg # defaultButton
    /\ currentButton = lastCall.arg

C4_Rank(step) ==
    CASE step = "setCurrentButton" -> 1
      [] step = "formatButtons" -> 2
      [] step = "onClick" -> 3
      [] step = "button.onClick" -> 4

C4_Steps == {trace[i].step : i \in 1..Len(trace)}

\* C4: within one run of the click handler the steps happen in the order
\* setCurrentButton, formatButtons, general onClick (if set), onClick of the
\* button (if set); the callback of the button never runs without the
\* general callback (when set) having run before it in the same run.
C4_HandlerOrder ==
    /\ \A i, j \in 1..Len(trace) :
          i < j => C4_Rank(trace[i].step) < C4_Rank(trace[j].step)
    /\ (C4_Steps \cap {"onClick", "button.onClick"}) # {}
          => {"setCurrentButton", "formatButtons"} \subseteq C4_Steps
    /\ ("button.onClick" \in C4_Steps /\ ~isEmpty(onClick))
          => "onClick" \in C4_Steps

\* A handler ran both callbacks.
C4_Witness ==
    /\ Idle
    /\ Len(trace) = 4
    /\ trace[3].step = "onClick"
    /\ trace[4].step = "button.onClick"

\* C5: whenever the general onClick or the onClick of a button runs as part
\* of a click on button X, it observes the state after the transition:
\* currentButton is X, X is formatted as active and every other button as
\* normal.
C5_CallbacksSeeNewState ==
    \A i \in 1..Len(trace) :
        trace[i].step \in {"onClick", "button.onClick"}
        => /\ lastCall.op = "click"
           /\ trace[i].currentButton = lastCall.arg
           /\ trace[i].classes = OnlyActive(lastCall.arg)

\* Both callbacks ran for a click that moved the selection away from the
\* default button.
C5_Witness ==
    /\ Len(trace) = 4
    /\ lastCall.op = "click"
    /\ lastCall.arg # defaultButton
    /\ clicks[lastCall.arg] = 1
    /\ TotalClicks = 1
    /\ trace[3].step = "onClick"
    /\ trace[3].currentButton = lastCall.arg
    /\ trace[4].step = "button.onClick"
    /\ trace[4].classes = OnlyActive(lastCall.arg)

\* C6: after one initButtons, whenever no handler is running, the general
\* onClick has been invoked once per click and the onClick of every button
\* once per click on that button; a click on the button that is already
\* current counts like any other.
C6_OneCallPerClick ==
    (initCount = 1 /\ Idle)
    => /\ generalCalls = IF isEmpty(onClick) THEN 0 ELSE TotalClicks
       /\ \A b \in Range(buttonNames) :
             buttonCalls[b] = IF b \in onClickButtons THEN clicks[b] ELSE 0

\* The same button was clicked twice in a row, the second click leaving
\* currentButton unchanged, and both callbacks ran twice.
C6_Witness ==
    /\ initCount = 1
    /\ Idle
    /\ lastCall.op = "click"
    /\ clicks[lastCall.arg] = 2
    /\ TotalClicks = 2
    /\ currentButton = lastCall.arg
    /\ generalCalls = 2
    /\ buttonCalls[lastCall.arg] = 2

\* C7: construction resolves defaultButton to the requested default when
\* that is non-empty and a key of the button list, and to the first key
\* otherwise; currentButton starts as defaultButton and so is a configured
\* button.
C7_DefaultResolved ==
    lastCall.op = "new"
    => /\ defaultButton = IF ~isEmpty(lastCall.arg) /\ IsButton(lastCall.arg)
                          THEN lastCall.arg
                          ELSE buttonNames[1]
       /\ currentButton = defaultButton
       /\ IsButton(currentButton)

\* C8: after initButtons on a freshly constructed group currentButton is the
\* value of the URL parameter if that is a configured button, and
\* defaultButton if the parameter is absent, empty or not a configured
\* button.
C8_UrlOverride ==
    (lastCall.op = "initButtons" /\ initCount = 1)
    => currentButton = IF ~isEmpty(lastCall.arg) /\ IsButton(lastCall.arg)
                       THEN lastCall.arg
                       ELSE defaultButton

\* C9: after initButtons and after every completed click exactly one button
\* is formatted as active, it is currentButton, and every other button is
\* formatted as normal.
C9_ExactlyOneActive ==
    (Idle /\ lastCall.op \in {"initButtons", "click"})
    => /\ IsButton(currentButton)
       /\ classes = OnlyActive(currentButton)
       /\ Cardinality({b \in Range(buttonNames) :
                          classes[b] = CLASS_BUTTON_ACTIVE}) = 1

\* C10: getCurrentButton returns the configuration of currentButton, with
\* its name field equal to currentButton.
C10_ReturnsCurrentConfig ==
    lastCall.op = "getCurrentButton"
    => /\ lastCall.result = [object |-> currentButton, name |-> currentButton]
       /\ nameField[currentButton] = currentButton

----------------------------------------------------------------------------
(* Properties of mergeSum *)

MergeDone == mergePos = Len(mergeOrder)

KeysReceived == {mergeInput[i].key : i \in 1..Len(mergeInput)}

\* The sum of the results received with the key property `key`.
SumReceived(key) ==
    SeqSum([i \in 1..Len(mergeInput) |->
               IF mergeInput[i].key = key THEN mergeInput[i].result ELSE 0],
           Len(mergeInput))

\* The object number that was handed to mergeSum first among those with `key`.
FirstSeen(key) ==
    mergeOrder[CHOOSE p \in 1..Len(mergeOrder) :
                  /\ mergeInput[mergeOrder[p]].key = key
                  /\ \A q \in 1..(p - 1) : mergeInput[mergeOrder[q]].key # key]

\* C11: after any sequence of objects has been merged into an empty hash
\* table, in any order, the table holds for every key received an object
\* whose result is the sum of the results received with that key; only
\* which object it is (the first one seen) depends on the order.
C11_SumPerKey ==
    MergeDone =>
        \A key \in KeysReceived :
            LET j == OwnIndex(key, objects, mergedHashTable)
            IN  /\ j > 0
                /\ objects[mergedHashTable[j]].result = SumReceived(key)
                /\ mergedHashTable[j] = FirstSeen(key)

----------------------------------------------------------------------------
(* Properties of the merged charts *)

\* The keys of a sequence of objects, and what the merge of the sequence
\* has to be: one object per key, with the sum of the results of the key,
\* in the order in which the keys are seen first.
KeysOf(objs) == {objs[i].key : i \in 1..Len(objs)}

SumOf(objs, key) ==
    SeqSum([i \in 1..Len(objs) |->
               IF objs[i].key = key THEN objs[i].result ELSE 0], Len(objs))

FirstPos(objs, key) == CHOOSE i \in 1..Len(objs) :
    objs[i].key = key /\ \A h \in 1..(i - 1) : objs[h].key # key

IsMergeOf(data, objs) ==
    /\ Len(data) = Cardinality(KeysOf(objs))
    /\ \A j \in 1..Len(data) :
          /\ data[j].key \in KeysOf(objs)
          /\ data[j].result = SumOf(objs, data[j].key)
    /\ \A j, h \in 1..Len(data) :
          j < h => FirstPos(objs, data[j].key) < FirstPos(objs, data[h].key)

LastRendered == evRendered[Len(evRendered)]

\* C12: the flat merge of the results of a batch yields one element per
\* distinct key, whose result is the sum of the results of all objects with
\* that key, in the order in which the keys are first seen across the
\* results taken in order.
C12_FlatMerge ==
    (evChart = "chartEventsPerProjectPie" /\ evRendered # <<>>)
    => IsMergeOf(LastRendered,
                 evOutcome.res[1].result \o evOutcome.res[2].result)

\* The results of a batch respect the result shape: all results have the
\* same number of buckets.
SameBuckets(res) ==
    \A q \in 1..Len(res) : Len(res[q].result) = Len(res[1].result)

AtPosition(res, i) ==
    Flatten([q \in 1..Len(res) |->
                IF i <= Len(res[q].result) THEN res[q].result[i].value
                ELSE <<>>])

\* C17: the merged series of an interval merge has as many buckets as the
\* first result; bucket i has the timeframe of bucket i of the first result
\* and as value the merge (sum per key) of the objects at position i of
\* every result, and of these only.
C17_IntervalMerge ==
    (evChart = "chartEventsPerProject" /\ evRendered # <<>>)
    => /\ Len(LastRendered) = Len(evOutcome.res[1].result)
       /\ \A i \in 1..Len(LastRendered) :
             /\ LastRendered[i].timeframe
                   = evOutcome.res[1].result[i].timeframe
             /\ IsMergeOf(LastRendered[i].value,
                          AtPosition(evOutcome.res, i))

\* C18: a mergeSum call for an object with key k changes, when the hash
\* table has an entry for k, only the result of that entry, which grows by
\* the result of the object; when it has none, it adds the object under k
\* and changes no object.  The keys of the table never shrink.
C18_MergeSumFrame ==
    [][ mergePos' = mergePos + 1 =>
          LET i == mergeOrder[mergePos + 1]
              j == OwnIndex(objects[i].key, objects, mergedHashTable)
          IN  IF j > 0
              THEN /\ mergedHashTable' = mergedHashTable
                   /\ objects' = [objects EXCEPT ![mergedHashTable[j]].result
                                     = @ + objects[i].result]
              ELSE /\ mergedHashTable' = Append(mergedHashTable, i)
                   /\ objects' = objects
      ]_vars

----------------------------------------------------------------------------
(* More properties of the selection group *)

\* C14: setCurrentButton is idempotent: in every reachable state and for
\* every key, a second call with the same key changes nothing, and every
\* call ends with a button name in currentButton (there is no error
\* outcome); in particular calling it again after a call leaves
\* currentButton as it is.
C14_Idempotent ==
    /\ \A key \in KeyInputs(buttonNames) :
          LET once == setCurrentButton(key, currentButton, defaultButton,
                                       buttonNames)
          IN  /\ once \in {key, defaultButton}
              /\ setCurrentButton(key, once, defaultButton, buttonNames)
                    = once
    /\ lastCall.op = "setCurrentButton"
          => setCurrentButton(lastCall.arg, currentButton, defaultButton,
                              buttonNames) = currentButton

\* A call with an invalid key has changed currentButton.
C14_Witness ==
    /\ lastCall.op = "setCurrentButton"
    /\ lastCall.arg = "bogus"
    /\ lastCall.before # currentButton
    /\ IsButton(lastCall.before)

\* C16: a group constructed without buttons gets the two placeholder
\* buttons: after construction the button list is not empty, defaultButton
\* and currentButton are placeholder buttons and getCurrentButton returns
\* the configuration of the current one.
C16_PlaceholdersUsable ==
    lastCall.op = "new"
    => /\ Len(buttonNames) > 0
       /\ buttonNames = PlaceholderButtons
             => /\ defaultButton \in Range(PlaceholderButtons)
                /\ currentButton \in Range(PlaceholderButtons)
                /\ getCurrentButton(currentButton, buttonNames, nameField)
                      = [object |-> currentButton, name |-> currentButton]

\* What belongs to one group: its buttons, its default and current button,
\* how often its callback ran, and the classes of its elements.
StateOfGroup(g, current, document, calls) ==
    <<twoButtonList[g], twoDefault[g], current[g], calls[g],
      [e \in Elements(g, twoButtonList[g]) |-> document[e]]>>

----------------------------------------------------------------------------
(* Properties of the count charts *)

\* C19: in-flight refreshes are never cancelled: a click removes no request
\* that is in flight and adds one per count chart; a request leaves only by
\* its callback, one at a time and in any order, and the chart then shows
\* the answer to that very request, whatever the current button is.
C19_NoCancellation ==
    [][/\ clicks' # clicks
          => /\ countInFlight \subseteq countInFlight'
             /\ \A c \in CountCharts :
                   \E r \in countInFlight' \ countInFlight :
                      r.chart = c /\ r.option = currentButton'
       /\ \A r \in countInFlight \ countInFlight' :
             /\ countInFlight' = countInFlight \ {r}
             /\ countDisplay'[r.chart] \in Answers(r)
             /\ currentButton' = currentButton]_vars

\* 'builds' was clicked, then 'jobs'; nothing is in flight any more and the
\* bar chart shows the data requested by the click on 'builds' while the
\* current button is 'jobs'.
C19_Witness ==
    /\ countInFlight = {}
    /\ currentButton = "jobs"
    /\ lastCall.op = "click"
    /\ LET shown == countDisplay["chartBuildsPerProject"]
       IN  /\ shown.kind = "data"
           /\ shown.request.option = "builds"
           /\ shown.request.id > 1
           /\ shown.request.query # countQueries["chartBuildsPerProject"]

\* C20: after initCharts, between clicks, the current button is a count
\* button and the queries of the builds-per-project chart and of its pie
\* chart carry the event collection and the target property of its
\* settings; both titles are its caption followed by ' per project'.
C20_QueriesTrackSelection ==
    countReady
    => \E b \in DOMAIN BUTTONS_COUNT :
          /\ b = currentButton
          /\ \A c \in CountCharts :
                /\ countQueries[c].eventCollection
                      = BUTTONS_COUNT[b].keenEventCollection
                /\ countQueries[c].targetProperty
                      = BUTTONS_COUNT[b].keenTargetProperty
                /\ countTitles[c] = <<BUTTONS_COUNT[b].caption, " per project">>

----------------------------------------------------------------------------
(* Frame of the selection group *)

\* C22: defaultButton and the keys of the button list are fixed at
\* construction: no step (initButtons, setCurrentButton with any key,
\* getCurrentButton, formatButtons, a click or a statement of its handler)
\* changes defaultButton or the list of button keys.
C22_DefaultIsFixed ==
    [][/\ defaultButton' = defaultButton
       /\ buttonNames' = buttonNames]_vars

\* After initButtons and a click, setCurrentButton was called with a key
\* that is no button: the current button went back to the default, which
\* is still a button of the list.
C22_Witness ==
    /\ initCount > 0
    /\ TotalClicks > 0
    /\ lastCall.op = "setCurrentButton"
    /\ ~InButtonList(lastCall.arg, buttonNames)
    /\ lastCall.before # defaultButton
    /\ currentButton = defaultButton
    /\ defaultButton \in Range(buttonNames)

----------------------------------------------------------------------------
(* Results of an interval merge that differ in their number of buckets *)

\* A later result of the batch has fewer buckets than the first one.
FewerBuckets(res) ==
    \E q \in 2..Len(res) : Len(res[q].result) < Len(res[1].result)

\* C23: the callback of chartEventsPerProject does not compare the numbers
\* of buckets of the results.  If a later result has fewer buckets than the
\* first, the merge stops with a TypeError at the first position that
\* result lacks: nothing is rendered and no error is displayed.  Otherwise
\* it renders one series with the buckets of the first result only: what
\* later results hold beyond them is left out, without any error.
C23_BucketCountMismatch ==
    [][ (/\ evInFlight' < evInFlight
         /\ evChart = "chartEventsPerProject"
         /\ evOutcome.err = NoError)
        => /\ evErrors' = evErrors
           /\ IF FewerBuckets(evOutcome.res)
              THEN /\ evRendered' = evRendered
                   /\ evThrown' = evThrown + 1
              ELSE /\ evThrown' = evThrown
                   /\ Len(evRendered') = Len(evRendered) + 1
                   /\ LET res == evOutcome.res
                          series == evRendered'[Len(evRendered')]
                      IN  /\ Len(series) = Len(res[1].result)
                          /\ \A i \in 1..Len(series) :
                                /\ series[i].timeframe
                                      = res[1].result[i].timeframe
                                /\ \A j \in 1..Len(series[i].value) :
                                      LET o == series[i].value[j]
                                      IN  /\ o.key \in KeysOf(AtPosition(res, i))
                                          /\ o.result
                                               = SumOf(AtPosition(res, i), o.key)
      ]_vars

\* The first result has two buckets and the second only one: the callback
\* has run, merged position 1, stopped at position 2 and rendered nothing.
C23_Witness ==
    /\ evChart = "chartEventsPerProject"
    /\ evOutcome.err = NoError
    /\ Len(evOutcome.res[1].result) = 2
    /\ Len(evOutcome.res[2].result) = 1
    /\ evOutcome.res[2].result[1].value # <<>>
    /\ evRuns = 1
    /\ evInFlight = 0
    /\ evAggregations = 1
    /\ evThrown = 1
    /\ evRendered = <<>>
    /\ evErrors = <<>>

----------------------------------------------------------------------------
(* What a click on a count button requests *)

\* C21: a click on a count button issues exactly two requests, one for
\* chartBuildsPerProject and one for chartBuildsPerProjectPie, and none for
\* any other chart of the page: the request counts of the other charts,
\* the 'Total events per project' charts among them, and what these two
\* show are unchanged by the click.
C21_ClickRequestsTwoCharts ==
    [][clicks' # clicks
       => /\ \A c \in ChartsUpdate :
                countRequests'[c] = countRequests[c]
                                      + IF c \in CountCharts THEN 1 ELSE 0
          /\ countInFlight \subseteq countInFlight'
          /\ Cardinality(countInFlight' \ countInFlight) = 2
          /\ {r.chart : r \in countInFlight' \ countInFlight} = CountCharts
          /\ \A c \in EventCharts : countDisplay'[c] = countDisplay[c]]_vars

\* The page started with 'jobs'; 'builds' was clicked and every request has
\* been answered: chartBuildsPerProject shows the data of 'builds', while
\* chartEventsPerProject, requested once, still shows the data of a batch
\* whose count query was that of 'jobs'.
C21_Witness ==
    /\ countInFlight = {}
    /\ currentButton = "builds"
    /\ lastCall.op = "click"
    /\ countRequests["chartEventsPerProject"] = 1
    /\ countRequests["chartBuildsPerProject"] = 2
    /\ LET events == countDisplay["chartEventsPerProject"]
           builds == countDisplay["chartBuildsPerProject"]
       IN  /\ events.kind = "data"
           /\ events.request.option = "jobs"
           /\ events.request.query # countQueries["chartBuildsPerProject"]
           /\ builds.kind = "data"
           /\ builds.request.query = countQueries["chartBuildsPerProject"]

====
